---- MODULE Spec2Model ----
(***************************************************************************)
(* Model of package runner (src/runner.go): a sequential task runner.      *)
(* Strings are tuples of one-character strings, so that strconv.Atoi and   *)
(* fmt's %v / %q are computed rather than assumed.  Indices are zero-based *)
(* as in the Go code; At(s, i) reads element i of a slice.                 *)
(***************************************************************************)
EXTENDS Integers, Sequences, FiniteSets, TLC

VARIABLES ss, pc, entry, command, startIndex, i, err, got, invoked, evals, events,
          trace, added, ranBefore

vars == <<ss, pc, entry, command, startIndex, i, err, got, invoked, evals, events,
          trace, added, ranBefore>>

(* ------------------------------ bounds --------------------------------- *)

MaxSteps == 3

MaxCommandLen == 2

(* ------------------------------ strings -------------------------------- *)

Digits == <<"0", "1", "2", "3", "4", "5", "6", "7", "8", "9">>

IsDigit(c) == \E d \in 1..10 : Digits[d] = c

DigitVal(c) == (CHOOSE d \in 1..10 : Digits[d] = c) - 1

RECURSIVE DigitsVal(_)
DigitsVal(s) ==
    IF s = <<>> THEN 0
    ELSE DigitsVal(SubSeq(s, 1, Len(s) - 1)) * 10 + DigitVal(s[Len(s)])

\* strconv.Atoi: an optional sign, then one or more decimal digits.
Atoi(s) ==
    LET signed == Len(s) > 0 /\ s[1] \in {"-", "+"}
        body   == IF signed THEN Tail(s) ELSE s
    IN  IF Len(body) = 0 \/ \E k \in 1..Len(body) : ~IsDigit(body[k])
        THEN [ok |-> FALSE, n |-> 0]
        ELSE [ok |-> TRUE,
              n  |-> IF signed /\ s[1] = "-" THEN 0 - DigitsVal(body) ELSE DigitsVal(body)]

RECURSIVE Itoa(_)
Itoa(n) ==
    IF n < 0 THEN <<"-">> \o Itoa(0 - n)
    ELSE IF n < 10 THEN <<Digits[n + 1]>>
    ELSE Itoa(n \div 10) \o <<Digits[(n % 10) + 1]>>

RECURSIVE Quote(_)
\* fmt's %q body: a double quote and a backslash are escaped.
Quote(s) ==
    IF s = <<>> THEN <<>>
    ELSE (IF s[1] \in {"\"", "\\"} THEN <<"\\", s[1]>> ELSE <<s[1]>>) \o Quote(Tail(s))

RECURSIVE Join(_, _)
Join(strs, sep) ==
    IF strs = <<>> THEN <<>>
    ELSE IF Len(strs) = 1 THEN strs[1]
    ELSE strs[1] \o sep \o Join(Tail(strs), sep)

(* ------------------------------- errors -------------------------------- *)

Nil == [kind |-> "nil"]

\* errors.New(msg)
ErrNew(msg) == [kind |-> "New", msg |-> msg]

\* errors.Errorf(format, args...)
Errorf(format, args) == [kind |-> "Errorf", format |-> format, args |-> args]

\* errors.Wrapf(cause, format, args...) and errors.Wrap(cause, msg)
Wrapf(cause, format, args) ==
    [kind |-> "Wrap", format |-> format, args |-> args, cause |-> cause]

(* ------------------------------- steps --------------------------------- *)

At(s, k) == s[k + 1]

InRange(s, k) == k >= 0 /\ k < Len(s)

\* Step: Run and SkipFunc are function values, either nil or set.
Step(name, run, dependent, skf) ==
    [Name |-> name, Run |-> run, Dependent |-> dependent, SkipFunc |-> skf]

\* getName counting the steps from one.
getNameOneBased(s, index) ==
    Itoa(index + 1) \o <<":", "\"">> \o Quote(s.Name) \o <<"\"">>

\* getName with %v for the name: no quotes.
getNameUnquoted(s, index) == Itoa(index) \o <<":">> \o s.Name

getName(s, index) == Itoa(index) \o <<":", "\"">> \o Quote(s.Name) \o <<"\"">>

\* shouldSkip with the test of the predicate's answer inverted.
shouldSkipInverted(skf, called) ==
    IF skf = "nil" \/ called THEN FALSE ELSE TRUE

\* shouldSkip; called is what skf() returns when skf is not nil.
shouldSkip(skf, called) ==
    IF skf = "nil" \/ ~called THEN FALSE ELSE TRUE

\* Whether shouldSkip calls skf at all (skf == nil short-circuits).
skfCalled(skf) == skf # "nil"

Names(s) == [k \in 1..Len(s) |-> getName(s[k], k - 1)]

\* GetStep looking for a name before trying the command as an index.
GetStepNameFirst(s, cmd) ==
    LET a == Atoi(cmd) IN
    IF \E k \in 1..Len(s) : s[k].Name = cmd
    THEN [index |-> (CHOOSE k \in 1..Len(s) :
                        /\ s[k].Name = cmd
                        /\ \A j \in 1..(k - 1) : s[j].Name # cmd) - 1,
          err |-> Nil]
    ELSE IF a.ok /\ a.n >= 0 /\ a.n < Len(s)
    THEN [index |-> a.n, err |-> Nil]
    ELSE [index |-> 0,
          err |-> Errorf("%q is not a valid process step name, use: %v",
                         <<cmd, Join(Names(s), <<",", " ">>)>>)]

\* GetStep with the upper bound of the index off by one (<= len(ss)).
GetStepInclusive(s, cmd) ==
    LET a == Atoi(cmd) IN
    IF a.ok /\ a.n >= 0 /\ a.n <= Len(s)
    THEN [index |-> a.n, err |-> Nil]
    ELSE IF \E k \in 1..Len(s) : s[k].Name = cmd
    THEN [index |-> (CHOOSE k \in 1..Len(s) :
                        /\ s[k].Name = cmd
                        /\ \A j \in 1..(k - 1) : s[j].Name # cmd) - 1,
          err |-> Nil]
    ELSE [index |-> 0,
          err |-> Errorf("%q is not a valid process step name, use: %v",
                         <<cmd, Join(Names(s), <<",", " ">>)>>)]

GetStep(s, cmd) ==
    LET a == Atoi(cmd) IN
    IF a.ok /\ a.n >= 0 /\ a.n < Len(s)
    THEN [index |-> a.n, err |-> Nil]
    ELSE IF \E k \in 1..Len(s) : s[k].Name = cmd
    THEN [index |-> (CHOOSE k \in 1..Len(s) :
                        /\ s[k].Name = cmd
                        /\ \A j \in 1..(k - 1) : s[j].Name # cmd) - 1,
          err |-> Nil]
    ELSE [index |-> 0,
          err |-> Errorf("%q is not a valid process step name, use: %v",
                         <<cmd, Join(Names(s), <<",", " ">>)>>)]

(* --------------------------- Run's building blocks --------------------- *)

\* The log line of one step: localLogger carries lastStep = len(ss)-1.
logEvent(msg, k, s) ==
    [msg |-> msg, step |-> k, name |-> At(s, k).Name, lastStep |-> Len(s) - 1]

dependentError(s, start) ==
    Errorf("step %v: %q cannot be started independently, it relies on previous steps",
           <<Itoa(start), At(s, start).Name>>)

\* stepError reporting the step by its one-based position.
stepErrorOneBased(cause, s, k) ==
    Wrapf(cause, "could not perform step %v, %v", <<Itoa(k + 1), At(s, k).Name>>)

stepError(cause, s, k) ==
    Wrapf(cause, "could not perform step %v, %v", <<Itoa(k), At(s, k).Name>>)

\* The skip predicate consulted for the steps before the start index too.
consultsSkipAlways(s, start, k) == skfCalled(At(s, k).SkipFunc)

\* The condition of the loop body: i >= startIndex && !step.shouldSkip().
\* && short-circuits: the predicate is consulted only when k >= start.
consultsSkip(s, start, k) == k >= start /\ skfCalled(At(s, k).SkipFunc)

\* doesStep with the start index excluded (i > startIndex).
doesStepAfterStart(s, start, k, called) ==
    k > start /\ ~shouldSkip(At(s, k).SkipFunc, called)

doesStep(s, start, k, called) ==
    k >= start /\ ~shouldSkip(At(s, k).SkipFunc, called)

\* The Dependent check left out.
cannotStartNever(s, start) == FALSE

\* The Dependent check applied to every step up to the start index.
cannotStartPastDependent(s, start) == \E k \in 0..start : At(s, k).Dependent

\* The check before the loop: startStep.Dependent.
cannotStart(s, start) == At(s, start).Dependent

\* The error of an action dropped.
failedNever(ret) == FALSE

\* if err != nil
failed(ret) == ret # Nil

\* The loop staying on the step it has just handled.
nextIndexSame(k) == k

\* for i, step := range ss: the next index.
nextIndex(k) == k + 1

\* The log line written after the action has been called.
loopTraceLogLast(consulted, calls, k) ==
    (IF consulted THEN <<[kind |-> "eval", step |-> k]>> ELSE <<>>)
    \o (IF calls THEN <<[kind |-> "call", step |-> k]>> ELSE <<>>)
    \o <<[kind |-> "log", step |-> k]>>

\* The order of one iteration: the skip predicate if it is consulted, then
\* the log line, then the action if it is called.
loopTrace(consulted, calls, k) ==
    (IF consulted THEN <<[kind |-> "eval", step |-> k]>> ELSE <<>>)
    \o <<[kind |-> "log", step |-> k]>>
    \o (IF calls THEN <<[kind |-> "call", step |-> k]>> ELSE <<>>)

\* A nil Run function guarded like a nil SkipFunc.
callPanicsNever(fn) == FALSE

\* step.Run(): calling a nil func value panics.
callPanics(fn) == fn = "nil"

(* ------------------------------ the state ------------------------------ *)

StepNames == {<<"a">>, <<"1">>}

Funcs == {"nil", "fn"}

StepValues ==
    {Step(n, r, d, k) : n \in StepNames, r \in Funcs, d \in BOOLEAN, k \in Funcs}

\* What a step's action may return: mock.success and mock.throw of the tests.
ActionResults == {Nil, ErrNew("error")}

RunCommands == {<<>>, <<"0">>, <<"1">>, <<"a">>, <<"7">>}

NoGot == [op |-> "none"]

Init ==
    /\ ss = <<>>
    /\ pc = "idle"
    /\ entry = "none"
    /\ command = <<>>
    /\ startIndex = 0
    /\ i = 0
    /\ err = Nil
    /\ got = NoGot
    /\ invoked = <<>>
    /\ evals = <<>>
    /\ events = <<>>
    /\ trace = <<>>
    /\ added = <<>>
    /\ ranBefore = FALSE

\* A call is made by the caller when no call is in progress; a panic ends
\* the program.
Callable == pc = "idle"

\* A call starts with nothing observed yet.
Fresh(e, cmd, start) ==
    /\ entry' = e
    /\ command' = cmd
    /\ startIndex' = start
    /\ invoked' = <<>>
    /\ evals' = <<>>
    /\ events' = <<>>
    /\ trace' = <<>>
    /\ i' = 0

(* ------------------------------ operations ----------------------------- *)

\* Run, up to the for loop: the index expression ss[startIndex] and the
\* Dependent check.
\* Run dropping the steps before the start index from the slice.
RunBodyReslicing(e, cmd, start) ==
    /\ Fresh(e, cmd, 0)
    /\ got' = NoGot
    /\ UNCHANGED <<added, ranBefore>>
    /\ IF ~InRange(ss, start)
       THEN pc' = "panicked" /\ err' = Nil /\ UNCHANGED ss
       ELSE IF cannotStart(ss, start)
       THEN pc' = "returned" /\ err' = dependentError(ss, start) /\ UNCHANGED ss
       ELSE pc' = "run" /\ err' = Nil /\ ss' = SubSeq(ss, start + 1, Len(ss))

RunBody(e, cmd, start) ==
    /\ Fresh(e, cmd, start)
    /\ got' = NoGot
    /\ UNCHANGED <<ss, added, ranBefore>>
    /\ IF ~InRange(ss, start)
       THEN pc' = "panicked" /\ err' = Nil
       ELSE IF cannotStart(ss, start)
       THEN pc' = "returned" /\ err' = dependentError(ss, start)
       ELSE pc' = "run" /\ err' = Nil

Run(start) ==
    /\ Callable
    /\ RunBody("Run", <<>>, start)

\* One iteration of Run's for loop, and the return after the last one.
RunLoop ==
    /\ pc = "run"
    /\ \E called \in BOOLEAN, ret \in ActionResults :
        LET consulted == consultsSkip(ss, startIndex, i)
            does      == doesStep(ss, startIndex, i, called)
            fn        == At(ss, i).Run
            last      == nextIndex(i) >= Len(ss)
        IN  /\ evals' = IF consulted
                        THEN Append(evals, [step |-> i, result |-> called])
                        ELSE evals
            /\ events' = Append(events,
                                logEvent(IF does THEN "do step" ELSE "skip step", i, ss))
            /\ trace' = trace \o loopTrace(consulted, does /\ ~callPanics(fn), i)
            /\ IF does /\ callPanics(fn)
               THEN /\ pc' = "panicked"
                    /\ UNCHANGED <<invoked, err, i>>
               ELSE IF does
               THEN /\ invoked' = Append(invoked, [step |-> i, ret |-> ret])
                    /\ IF failed(ret)
                       THEN /\ pc' = "returned"
                            /\ err' = stepError(ret, ss, i)
                            /\ UNCHANGED i
                       ELSE /\ pc' = IF last THEN "returned" ELSE "run"
                            /\ i' = nextIndex(i)
                            /\ UNCHANGED err
               ELSE /\ pc' = IF last THEN "returned" ELSE "run"
                    /\ i' = nextIndex(i)
                    /\ UNCHANGED <<invoked, err>>
    /\ UNCHANGED <<ss, entry, command, startIndex, got, added, ranBefore>>

\* RunAll starting at the second step (a one-based first index).
RunAllFromOne ==
    /\ Callable
    /\ RunBody("RunAll", <<>>, 1)

RunAll ==
    /\ Callable
    /\ RunBody("RunAll", <<>>, 0)

\* RunFromCommand dropping GetStep's error and running from the index it
\* returned with it.
RunFromCommandIgnoresError(cmd) ==
    /\ Callable
    /\ RunBody("RunFromCommand", cmd, GetStep(ss, cmd).index)

RunFromCommand(cmd) ==
    /\ Callable
    /\ LET g == GetStep(ss, cmd) IN
       IF g.err # Nil
       THEN /\ Fresh("RunFromCommand", cmd, 0)
            /\ pc' = "returned"
            /\ err' = Wrapf(g.err, "could not parse command", <<>>)
            /\ got' = NoGot
            /\ UNCHANGED <<ss, added, ranBefore>>
       ELSE RunBody("RunFromCommand", cmd, g.index)

GetStepCall(cmd) ==
    /\ Callable
    /\ Fresh("GetStep", cmd, 0)
    /\ pc' = "returned"
    /\ got' = GetStep(ss, cmd)
    /\ err' = got'.err
    /\ UNCHANGED <<ss, added, ranBefore>>

NamesCall ==
    /\ Callable
    /\ Fresh("Names", <<>>, 0)
    /\ pc' = "returned"
    /\ got' = [names |-> Names(ss)]
    /\ err' = Nil
    /\ UNCHANGED <<ss, added, ranBefore>>

\* append putting the new step in front.
appendInFront(s, step) == <<step>> \o s

\* append(*ss, step)
append(s, step) == Append(s, step)

Add(step) ==
    /\ Callable
    /\ Len(ss) < MaxSteps
    /\ Fresh("Add", <<>>, 0)
    /\ ss' = append(ss, step)
    /\ added' = Append(added, step)
    /\ pc' = "returned"
    /\ got' = [steps |-> ss']
    /\ err' = Nil
    /\ UNCHANGED ranBefore

\* The call has returned and the caller goes on; nothing but the slice is
\* kept from one call to the next.
ReturnBody ==
    /\ pc = "returned"
    /\ pc' = "idle"
    /\ Fresh("none", <<>>, 0)
    /\ err' = Nil
    /\ got' = NoGot
    /\ UNCHANGED <<ss, added>>

Return ==
    /\ ReturnBody
    /\ UNCHANGED ranBefore

Next ==
    \/ \E step \in StepValues : Add(step)
    \/ \E start \in -1..Len(ss) : Run(start)
    \/ RunLoop
    \/ RunAll
    \/ \E cmd \in RunCommands : RunFromCommand(cmd)
    \/ \E cmd \in RunCommands : GetStepCall(cmd)
    \/ NamesCall
    \/ Return

Spec == Init /\ [][Next]_vars

(* ------ calls one after the other, with what came before remembered ---- *)

RunEntries == {"Run", "RunAll", "RunFromCommand"}

RerunNames == {<<"a">>}

RerunSteps ==
    {Step(n, r, d, k) : n \in RerunNames, r \in Funcs, d \in BOOLEAN, k \in Funcs}

\* A return that notes that a run has finished on this slice.
ReturnNoted ==
    /\ ReturnBody
    /\ ranBefore' = (ranBefore \/ entry \in RunEntries)

NextRerun ==
    \/ \E step \in RerunSteps : Add(step)
    \/ \E start \in -1..Len(ss) : Run(start)
    \/ RunLoop
    \/ RunAll
    \/ \E cmd \in RunCommands : RunFromCommand(cmd)
    \/ \E cmd \in RunCommands : GetStepCall(cmd)
    \/ NamesCall
    \/ ReturnNoted

\* The loop of Run is plain sequential code: an iteration that can be taken
\* is taken.
SpecRerun == Init /\ [][NextRerun]_vars /\ WF_vars(RunLoop)

(* ------------- GetStep on its own: more names, more commands ----------- *)

Alphabet == {"0", "1", "7", "-", "+", "a"}

RECURSIVE StringsUpTo(_)
StringsUpTo(n) ==
    IF n = 0 THEN {<<>>}
    ELSE LET shorter == StringsUpTo(n - 1) IN
         shorter \cup {Append(s, c) : s \in shorter, c \in Alphabet}

Commands == StringsUpTo(MaxCommandLen)

GetStepNames == {<<"a">>, <<"1">>, <<"7">>, <<"-", "1">>, <<"\"">>}

\* Steps with nothing but a name, as in TestSteps_GetStep.
NamedSteps == {Step(n, "nil", FALSE, "nil") : n \in GetStepNames}

RECURSIVE SeqsUpTo(_, _)
SeqsUpTo(S, n) ==
    IF n = 0 THEN {<<>>}
    ELSE LET shorter == SeqsUpTo(S, n - 1) IN
         shorter \cup {Append(s, x) : s \in shorter, x \in S}

InitGetStep ==
    /\ ss \in SeqsUpTo(NamedSteps, MaxSteps)
    /\ pc = "idle"
    /\ entry = "none"
    /\ command = <<>>
    /\ startIndex = 0
    /\ i = 0
    /\ err = Nil
    /\ got = NoGot
    /\ invoked = <<>>
    /\ evals = <<>>
    /\ events = <<>>
    /\ trace = <<>>
    /\ added = ss
    /\ ranBefore = FALSE

NextGetStep ==
    \/ \E cmd \in Commands : GetStepCall(cmd)
    \/ NamesCall
    \/ Return

SpecGetStep == InitGetStep /\ [][NextGetStep]_vars

(* -------------------- what a call of Run has done so far --------------- *)

InvokedSteps == [j \in 1..Len(invoked) |-> invoked[j].step]

Count(k) == Cardinality({j \in 1..Len(invoked) : invoked[j].step = k})

StrictlyAscending(q) == \A a, b \in 1..Len(q) : a < b => q[a] < q[b]

\* The skip predicate of step k was called and returned true.
SkipTrue(k) == \E j \in 1..Len(evals) : evals[j].step = k /\ evals[j].result

Finished == pc \in {"returned", "panicked"}

\* A call of Run with an index in range that passed the Dependent check.
Passed == entry = "Run" /\ InRange(ss, startIndex) /\ ~At(ss, startIndex).Dependent

\* Step k has been reached by the loop: its log line is written.
Reached(k) == Len(events) > k

(* --------------------------------- C1 ---------------------------------- *)

\* C1 as stated: for a non-empty sequence and a start index in range whose
\* step is not dependent, Run(start) invokes the action of every step at
\* index >= start exactly once, in ascending order, and none below start.
C1_AsStated ==
    (Passed /\ Finished) =>
        /\ \A k \in 0..(Len(ss) - 1) : Count(k) = IF k >= startIndex THEN 1 ELSE 0
        /\ StrictlyAscending(InvokedSteps)

\* C1 amended: Run(start) invokes only actions of steps at index >= start,
\* each at most once and in ascending index order; when it returns success
\* it has invoked exactly once the action of every step at index >= start
\* that was not skipped, and the action of no skipped step.
C1_InvokesFromStart ==
    Passed =>
        /\ \A j \in 1..Len(invoked) : invoked[j].step >= startIndex
        /\ StrictlyAscending(InvokedSteps)
        /\ (pc = "returned" /\ err = Nil) =>
              \A k \in startIndex..(Len(ss) - 1) :
                  Count(k) = IF SkipTrue(k) THEN 0 ELSE 1

C1_Witness ==
    /\ Passed
    /\ pc = "returned"
    /\ err = Nil
    /\ startIndex >= 1
    /\ InvokedSteps = <<startIndex, startIndex + 1>>

(* --------------------------------- C2 ---------------------------------- *)

\* The call ended with the error of a failing action.
StepFailed == entry = "Run" /\ pc = "returned" /\ err.kind = "Wrap"

\* C2 as stated: if the action at index k >= start fails, the actions at
\* the indices in [start, k) have each been invoked exactly once, the
\* action at k once, none after k, and the error names k and the step and
\* keeps the cause.
C2_AsStated ==
    StepFailed =>
        LET k == invoked[Len(invoked)].step IN
        /\ \A j \in 0..(Len(ss) - 1) :
              Count(j) = IF j >= startIndex /\ j <= k THEN 1 ELSE 0
        /\ err.args = <<Itoa(k), At(ss, k).Name>>
        /\ err.cause = invoked[Len(invoked)].ret

\* C2 amended: if the action at index k >= start fails, Run stops at once:
\* the actions at the indices in [start, k) that were not skipped have each
\* been invoked exactly once and those skipped not at all, the action at k
\* exactly once, nothing after k is invoked, evaluated or logged, and the
\* returned error names k and the step's name and keeps the failure as its
\* cause.
C2_StopsAtFailure ==
    (entry = "Run") =>
        \A n \in 1..Len(invoked) :
            invoked[n].ret # Nil =>
                LET k == invoked[n].step IN
                /\ n = Len(invoked)
                /\ pc = "returned"
                /\ k >= startIndex
                /\ \A j \in 0..(Len(ss) - 1) :
                      Count(j) = IF j >= startIndex /\ j <= k /\ ~SkipTrue(j)
                                 THEN 1 ELSE 0
                /\ Len(events) = k + 1
                /\ \A e \in 1..Len(evals) : evals[e].step <= k
                /\ err.kind = "Wrap"
                /\ err.args = <<Itoa(k), At(ss, k).Name>>
                /\ err.cause = invoked[n].ret

C2_Witness ==
    /\ StepFailed
    /\ invoked[Len(invoked)].step < Len(ss) - 1
    /\ \E k \in startIndex..invoked[Len(invoked)].step : SkipTrue(k)

(* --------------------------------- C3 ---------------------------------- *)

\* C3: Run(start) with a dependent step at start returns the dependent-start
\* error carrying start and the step's name, and does nothing else: no
\* action is invoked, no skip predicate is evaluated, no event is logged.
C3_DependentStart ==
    (entry = "Run" /\ InRange(ss, startIndex) /\ At(ss, startIndex).Dependent) =>
        /\ pc = "returned"
        /\ err.kind = "Errorf"
        /\ err.args = <<Itoa(startIndex), At(ss, startIndex).Name>>
        /\ invoked = <<>>
        /\ evals = <<>>
        /\ events = <<>>

C3_Witness ==
    /\ entry = "Run"
    /\ startIndex >= 1
    /\ InRange(ss, startIndex)
    /\ At(ss, startIndex).Dependent
    /\ At(ss, startIndex).SkipFunc = "fn"
    /\ At(ss, 0).Run = "fn"
    /\ pc = "returned"

(* --------------------------------- C4 ---------------------------------- *)

\* C4: in Run(start), a step at index >= start whose skip predicate is set
\* and returns true is not invoked and is logged as skipped, and the run
\* goes on with the next step; a step at index >= start with no skip
\* predicate, or whose predicate returns false, is logged as done.  Run(0)
\* on [A, B skipped, C] with A and C succeeding invokes A and C once each,
\* in that order, and returns success.
C4_SkipBypasses ==
    Passed =>
        /\ \A k \in startIndex..(Len(ss) - 1) :
              Reached(k) =>
                 IF At(ss, k).SkipFunc # "nil" /\ SkipTrue(k)
                 THEN /\ Count(k) = 0
                      /\ events[k + 1].msg = "skip step"
                      /\ (Len(events) = k + 1) =>
                            IF k = Len(ss) - 1
                            THEN pc = "returned" /\ err = Nil
                            ELSE pc = "run" /\ i = k + 1
                 ELSE events[k + 1].msg = "do step"
        /\ \A k \in 0..(Len(ss) - 1) : At(ss, k).SkipFunc = "nil" => ~SkipTrue(k)
        /\ ( /\ Len(ss) = 3
             /\ startIndex = 0
             /\ Finished
             /\ SkipTrue(1) /\ ~SkipTrue(0) /\ ~SkipTrue(2)
             /\ At(ss, 0).Run # "nil" /\ At(ss, 2).Run # "nil"
             /\ \A n \in 1..Len(invoked) : invoked[n].ret = Nil )
           => (pc = "returned" /\ err = Nil /\ InvokedSteps = <<0, 2>>)

C4_Witness ==
    /\ Passed
    /\ Len(ss) = 3
    /\ startIndex = 0
    /\ SkipTrue(1)
    /\ pc = "returned"
    /\ err = Nil
    /\ InvokedSteps = <<0, 2>>
    /\ [k \in 1..3 |-> events[k].msg] = <<"do step", "skip step", "do step">>

(* --------------------------------- C5 ---------------------------------- *)

\* C5: the Dependent flag matters at the start index only.  In Run(start)
\* with a non-dependent step at start the dependent-start error is never
\* returned, whatever the flags of the steps before start, and a dependent
\* step after start that is reached is done unless its skip predicate
\* returns true, its action being invoked once.
C5_DependentOnlyAtStart ==
    Passed =>
        /\ err.kind # "Errorf"
        /\ \A k \in (startIndex + 1)..(Len(ss) - 1) :
              (At(ss, k).Dependent /\ Reached(k)) =>
                  /\ (events[k + 1].msg = "do step") <=> ~SkipTrue(k)
                  /\ (~SkipTrue(k) /\ At(ss, k).Run # "nil") => Count(k) = 1

C5_Witness ==
    /\ Passed
    /\ startIndex = 1
    /\ Len(ss) = 3
    /\ At(ss, 0).Dependent
    /\ At(ss, 2).Dependent
    /\ pc = "returned"
    /\ err = Nil
    /\ InvokedSteps = <<1, 2>>

(* --------------------------------- C6 ---------------------------------- *)

\* C6 as stated: a step with a nil Run function that Run reaches at an
\* index >= start and does not skip counts as having run successfully, and
\* the run continues: a Run with a start index in range never faults.
C6_AsStated ==
    (entry = "Run" /\ InRange(ss, startIndex)) => pc # "panicked"

\* C6 amended: a step with a nil Run function is harmless only while Run
\* does not call it: before start, or skipped by its predicate, it is logged
\* as skipped and the run goes on.  When Run reaches it at an index >= start
\* and does not skip it, the do event is logged and the call of the nil
\* function faults: nothing is recorded as invoked, no error is returned
\* and no later step is considered.  Run with a start index in range faults
\* in no other way.
C6_NilRunFaults ==
    (entry = "Run" /\ InRange(ss, startIndex)) =>
        /\ \A k \in 0..(Len(ss) - 1) :
              (At(ss, k).Run = "nil" /\ Reached(k)) =>
                  IF events[k + 1].msg = "do step"
                  THEN /\ pc = "panicked"
                       /\ Len(events) = k + 1
                       /\ i = k
                       /\ Count(k) = 0
                       /\ err = Nil
                  ELSE /\ Count(k) = 0
                       /\ k < startIndex \/ SkipTrue(k)
                       /\ (Len(events) = k + 1) =>
                             pc = IF k = Len(ss) - 1 THEN "returned" ELSE "run"
        /\ pc = "panicked" =>
              /\ Reached(i)
              /\ Len(events) = i + 1
              /\ At(ss, i).Run = "nil"
              /\ events[i + 1].msg = "do step"

C6_Witness ==
    /\ entry = "Run"
    /\ pc = "panicked"
    /\ InRange(ss, startIndex)
    /\ i = 2
    /\ InvokedSteps = <<0>>
    /\ SkipTrue(1)
    /\ At(ss, 1).Run = "nil"

(* --------------------------------- C7 ---------------------------------- *)

\* command denotes an integer that is a valid index of ss.
IndexCommand == Atoi(command).ok /\ InRange(ss, Atoi(command).n)

\* The zero-based indices of the steps named like command.
NameMatches == {k \in 0..(Len(ss) - 1) : At(ss, k).Name = command}

Least(S) == CHOOSE m \in S : \A x \in S : m <= x

\* C7: GetStep(command) on n steps returns i when command parses as an
\* integer i with 0 <= i < n, also when a step is named like command;
\* otherwise the smallest index of a step whose name is command; otherwise
\* an error.  A returned index without error is in [0, n).
C7_GetStepResolves ==
    (entry = "GetStep") =>
        /\ IF IndexCommand
           THEN got.err = Nil /\ got.index = Atoi(command).n
           ELSE IF NameMatches # {}
           THEN got.err = Nil /\ got.index = Least(NameMatches)
           ELSE got.err # Nil
        /\ got.err = Nil => InRange(ss, got.index)

C7_Witness ==
    /\ entry = "GetStep"
    /\ IndexCommand
    /\ NameMatches # {}
    /\ Atoi(command).n \notin NameMatches
    /\ Atoi(command).n > Least(NameMatches)
    /\ got.index = Atoi(command).n

(* --------------------------------- C8 ---------------------------------- *)

\* command denotes an integer that is no valid index of ss.
OutOfRangeCommand == Atoi(command).ok /\ ~InRange(ss, Atoi(command).n)

\* C8 as stated: for a command denoting an integer outside [0, n),
\* GetStep(command) fails.
C8_AsStated ==
    (entry = "GetStep" /\ OutOfRangeCommand) => got.err # Nil

\* C8 amended: for a command denoting an integer outside [0, n),
\* GetStep(command) fails unless some step's name equals the command, in
\* which case it returns the smallest index of such a step.
C8_OutOfRangeFallsToNames ==
    (entry = "GetStep" /\ OutOfRangeCommand) =>
        IF NameMatches = {}
        THEN got.err # Nil
        ELSE got.err = Nil /\ got.index = Least(NameMatches)

C8_Witness ==
    /\ entry = "GetStep"
    /\ OutOfRangeCommand
    /\ Atoi(command).n < 0
    /\ Len(ss) = 3
    /\ NameMatches = {1, 2}
    /\ got = [index |-> 1, err |-> Nil]

(* --------------------- Run(start) as a function ------------------------ *)

\* What the skip predicate and the action of step k returned in this call
\* (false and nil when they were not called).
ActionRet(k) ==
    IF \E n \in 1..Len(invoked) : invoked[n].step = k
    THEN invoked[CHOOSE n \in 1..Len(invoked) : invoked[n].step = k].ret
    ELSE Nil

Outcome(p, e, inv, evl, evt) ==
    [pc |-> p, err |-> e, invoked |-> inv, evals |-> evl, events |-> evt]

RECURSIVE RunFrom(_, _, _, _)
\* The outcome of Run(start) on s from step k on, after the outcome o of the
\* steps before k, the predicates and actions returning what they returned
\* in the call observed.
RunFrom(s, start, k, o) ==
    IF k >= Len(s) THEN o
    ELSE
      LET step    == At(s, k)
          asked   == k >= start /\ step.SkipFunc # "nil"
          skipped == k < start \/ (asked /\ SkipTrue(k))
          evl     == IF asked
                     THEN Append(o.evals, [step |-> k, result |-> SkipTrue(k)])
                     ELSE o.evals
          line    == [msg |-> IF skipped THEN "skip step" ELSE "do step",
                      step |-> k, name |-> step.Name, lastStep |-> Len(s) - 1]
          evt     == Append(o.events, line)
          ret     == ActionRet(k)
          inv     == Append(o.invoked, [step |-> k, ret |-> ret])
      IN  IF skipped
          THEN RunFrom(s, start, k + 1, Outcome("returned", Nil, o.invoked, evl, evt))
          ELSE IF step.Run = "nil"
          THEN Outcome("panicked", Nil, o.invoked, evl, evt)
          ELSE IF ret # Nil
          THEN Outcome("returned",
                       Wrapf(ret, "could not perform step %v, %v",
                             <<Itoa(k), step.Name>>),
                       inv, evl, evt)
          ELSE RunFrom(s, start, k + 1, Outcome("returned", Nil, inv, evl, evt))

RunOf(s, start) ==
    IF start < 0 \/ start >= Len(s)
    THEN Outcome("panicked", Nil, <<>>, <<>>, <<>>)
    ELSE IF At(s, start).Dependent
    THEN Outcome("returned",
                 Errorf("step %v: %q cannot be started independently, it relies on previous steps",
                        <<Itoa(start), At(s, start).Name>>),
                 <<>>, <<>>, <<>>)
    ELSE RunFrom(s, start, 0, Outcome("returned", Nil, <<>>, <<>>, <<>>))

Observed == Outcome(pc, err, invoked, evals, events)

(* --------------------------------- C9 ---------------------------------- *)

\* C9: RunFromCommand(command) is GetStep(command) followed by Run of the
\* index returned.  When GetStep returns i, the actions invoked, the
\* predicates evaluated, the events logged and the result are those of
\* Run(i); when GetStep fails, RunFromCommand returns that error wrapped
\* with "could not parse command" and nothing is invoked, evaluated or
\* logged.
C9_RunFromCommand ==
    (entry = "RunFromCommand") =>
        LET g == GetStep(ss, command) IN
        IF g.err # Nil
        THEN /\ pc = "returned"
             /\ err = [kind |-> "Wrap", format |-> "could not parse command",
                       args |-> <<>>, cause |-> g.err]
             /\ invoked = <<>> /\ evals = <<>> /\ events = <<>>
        ELSE /\ startIndex = g.index
             /\ Finished => Observed = RunOf(ss, g.index)

C9_Witness ==
    /\ entry = "RunFromCommand"
    /\ GetStep(ss, command).err = Nil
    /\ GetStep(ss, command).index = 1
    /\ command = <<"a">>
    /\ pc = "returned"
    /\ err = Nil
    /\ InvokedSteps = <<1, 2>>

C9_WitnessFails ==
    /\ entry = "RunFromCommand"
    /\ GetStep(ss, command).err # Nil
    /\ Len(ss) = 2
    /\ pc = "returned"

(* --------------------------------- C10 --------------------------------- *)

\* C10: RunAll() is Run(0): the same actions invoked in the same order, the
\* same predicates evaluated, the same events and the same result, which on
\* an empty sequence is the fault of the out-of-range index.
C10_RunAllIsRunZero ==
    (entry = "RunAll") =>
        /\ startIndex = 0
        /\ Finished => Observed = RunOf(ss, 0)
        /\ Len(ss) = 0 => pc = "panicked"

C10_Witness ==
    /\ entry = "RunAll"
    /\ Len(ss) = 3
    /\ pc = "returned"
    /\ err.kind = "Wrap"
    /\ InvokedSteps = <<0, 2>>

(* --------------------------------- C11 --------------------------------- *)

\* What a finished run shows is what Run(startIndex) gives on the slice as
\* it is, also when a run has finished on it before.
RerunAsFresh ==
    (ranBefore /\ entry = "Run" /\ Finished) => Observed = RunOf(ss, startIndex)

\* C11: Run, RunAll, RunFromCommand, GetStep and Names never change the
\* sequence, only Add does; and a Run(start) made after an earlier run has
\* finished, with success or with an error, behaves as on a fresh sequence:
\* no record of the steps already run is kept.
C11_Stateless ==
    [][ /\ ss' # ss => (entry' = "Add" /\ pc = "idle")
        /\ entry' \in (RunEntries \cup {"GetStep", "Names", "none"}) => ss' = ss
        /\ RerunAsFresh' ]_vars

C11_Witness ==
    /\ ranBefore
    /\ entry = "Run"
    /\ startIndex = 0
    /\ pc = "returned"
    /\ err = Nil
    /\ InvokedSteps = <<0, 1, 2>>

(* --------------------------------- C12 --------------------------------- *)

\* C12: Add(step) on n steps gives n+1 steps, the first n unchanged and the
\* last one the step added, and returns the sequence it has extended: after
\* any chain of Add calls the sequence is the steps added, in call order.
C12_AddAppends ==
    /\ ss = added
    /\ entry = "Add" =>
          /\ pc = "returned"
          /\ Len(ss) >= 1
          /\ got.steps = ss
          /\ got.steps = added

C12_Witness ==
    /\ entry = "Add"
    /\ Len(ss) = 3
    /\ ss[1] # ss[2]
    /\ ss[2] # ss[3]
    /\ ss[1] # ss[3]

(* --------------------------------- C13 --------------------------------- *)

\* The positions of the trace that hold an entry of that kind for step k.
TracePos(kind, k) ==
    {p \in 1..Len(trace) : trace[p].kind = kind /\ trace[p].step = k}

\* C13: in a Run(start) that passed the dependent check the events come in
\* ascending step index, one per step reached, each with the step's index,
\* its name and the last index len-1: a skip event for a step before start
\* or skipped by its predicate, otherwise a do event, logged before the
\* action is invoked.  A run that succeeds has logged one event per step; a
\* run that fails at step k has logged the events of 0..k, the last one the
\* do event of k.
C13_Events ==
    Passed =>
        /\ \A j \in 1..Len(events) :
              /\ events[j].step = j - 1
              /\ events[j].name = At(ss, j - 1).Name
              /\ events[j].lastStep = Len(ss) - 1
              /\ events[j].msg = IF j - 1 < startIndex \/ SkipTrue(j - 1)
                                 THEN "skip step" ELSE "do step"
              /\ Cardinality(TracePos("log", j - 1)) = 1
        /\ Cardinality({p \in 1..Len(trace) : trace[p].kind = "log"}) = Len(events)
        /\ \A n \in 1..Len(invoked) :
              LET k == invoked[n].step IN
              /\ Reached(k)
              /\ events[k + 1].msg = "do step"
              /\ \A c \in TracePos("call", k) : c > 1 /\ trace[c - 1] = [kind |-> "log", step |-> k]
              /\ TracePos("call", k) # {}
        /\ (pc = "returned" /\ err = Nil) => Len(events) = Len(ss)
        /\ (pc = "returned" /\ err.kind = "Wrap") =>
              LET k == invoked[Len(invoked)].step IN
              /\ Len(events) = k + 1
              /\ events[k + 1].msg = "do step"

C13_Witness ==
    /\ Passed
    /\ startIndex = 1
    /\ pc = "returned"
    /\ err.kind = "Wrap"
    /\ [j \in 1..Len(events) |-> events[j].msg] = <<"skip step", "do step", "do step">>
    /\ At(ss, 0).Name # At(ss, 1).Name

(* --------------------------------- C14 --------------------------------- *)

\* The identifier of step k: its index, a colon, its name in double quotes.
Label(k) == <<Digits[k + 1], ":", "\"">> \o Quote(At(ss, k).Name) \o <<"\"">>

Labels == [k \in 1..Len(ss) |-> Label(k - 1)]

\* C14: when GetStep(command) fails, the error names the command and lists
\* the identifiers of all steps in order, each as index:"name", which are
\* the labels Names() returns, joined by ", "; the index returned is 0.
C14_GetStepError ==
    (entry = "GetStep" /\ got.err # Nil) =>
        /\ got.index = 0
        /\ got.err.kind = "Errorf"
        /\ got.err.args[1] = command
        /\ got.err.args[2] = Join(Labels, <<",", " ">>)
        /\ Labels = Names(ss)
        /\ err = got.err

C14_Witness ==
    /\ entry = "GetStep"
    /\ got.err # Nil
    /\ Len(ss) = 3
    /\ At(ss, 0).Name = <<"\"">>
    /\ At(ss, 2).Name = <<"-", "1">>
    /\ command = <<"7", "a">>

(* --------------------------------- C15 --------------------------------- *)

StartDependent == At(ss, startIndex).Dependent

SomeActionFailed == \E n \in 1..Len(invoked) : invoked[n].ret # Nil

\* The loop reached, at an index >= start and not skipped, a step whose Run
\* function is nil.
NilActionCalled ==
    \E k \in startIndex..(Len(ss) - 1) :
        Reached(k) /\ ~SkipTrue(k) /\ At(ss, k).Run = "nil"

\* C15 as stated: for a start index in range, Run(start) returns success if
\* and only if the step at start is not dependent and no action invoked
\* returned a failure; otherwise it returns exactly one error, that of the
\* dependent start or of the first failing step.
C15_AsStated ==
    (entry = "Run" /\ InRange(ss, startIndex) /\ Finished) =>
        /\ pc = "returned"
        /\ err = Nil <=> (~StartDependent /\ ~SomeActionFailed)
        /\ err # Nil => err.kind \in {"Errorf", "Wrap"}

\* C15 amended: for a start index in range, Run(start) returns success if
\* and only if the step at start is not dependent, no action invoked
\* returned a failure and no step with an unset action was reached
\* unskipped; it returns exactly one error, that of the dependent start or
\* of the first failing step, which is the only failure of the run, never
\* swallowed or retried; and it faults, returning nothing, exactly when it
\* reaches unskipped a step whose action is unset.
C15_Result ==
    (entry = "Run" /\ InRange(ss, startIndex) /\ Finished) =>
        /\ (pc = "returned" /\ err = Nil)
              <=> (~StartDependent /\ ~SomeActionFailed /\ ~NilActionCalled)
        /\ StartDependent =>
              (pc = "returned" /\ err.kind = "Errorf" /\ invoked = <<>>)
        /\ (~StartDependent /\ SomeActionFailed) =>
              /\ pc = "returned"
              /\ err.kind = "Wrap"
              /\ err.cause = invoked[Len(invoked)].ret
              /\ \A n \in 1..(Len(invoked) - 1) : invoked[n].ret = Nil
              /\ Count(invoked[Len(invoked)].step) = 1
        /\ pc = "panicked" <=> (~StartDependent /\ NilActionCalled)

C15_Witness ==
    /\ entry = "Run"
    /\ InRange(ss, startIndex)
    /\ pc = "returned"
    /\ err.kind = "Wrap"
    /\ Len(invoked) = 2
    /\ invoked[2].step < Len(ss) - 1

(* --------------------------------- C16 --------------------------------- *)

\* C16: Names() returns as many labels as there are steps, the i-th made of
\* the index i and the quoted name of step i, in sequence order; it invokes
\* no action, evaluates no skip predicate and leaves the sequence as it is.
C16_Names ==
    (entry = "Names") =>
        /\ pc = "returned"
        /\ Len(got.names) = Len(ss)
        /\ \A k \in 0..(Len(ss) - 1) : got.names[k + 1] = Label(k)
        /\ invoked = <<>> /\ evals = <<>> /\ events = <<>>
        /\ ss = added

C16_Witness ==
    /\ entry = "Names"
    /\ Len(ss) = 3
    /\ got.names[1] = <<"0", ":", "\"", "\\", "\"", "\"">>
    /\ got.names[2] = <<"1", ":", "\"", "a", "\"">>
    /\ got.names[3] = <<"2", ":", "\"", "-", "1", "\"">>

(* --------------------------------- C17 --------------------------------- *)

EvalSteps == [j \in 1..Len(evals) |-> evals[j].step]

\* C17: in Run(start) the skip predicate of a step before start is never
\* evaluated; that of a reached step at index k >= start is evaluated
\* exactly once, after the actions of the earlier steps and right before
\* the event of step k, which comes before its action; no predicate of a
\* step after a failing step is evaluated.
C17_SkipEvaluation ==
    Passed =>
        /\ \A j \in 1..Len(evals) :
              /\ evals[j].step >= startIndex
              /\ At(ss, evals[j].step).SkipFunc # "nil"
        /\ StrictlyAscending(EvalSteps)
        /\ \A k \in startIndex..(Len(ss) - 1) :
              (Reached(k) /\ At(ss, k).SkipFunc # "nil") =>
                  /\ Cardinality({j \in 1..Len(evals) : evals[j].step = k}) = 1
                  /\ Cardinality(TracePos("eval", k)) = 1
        /\ Cardinality({p \in 1..Len(trace) : trace[p].kind = "eval"}) = Len(evals)
        /\ \A p \in 1..Len(trace) :
              trace[p].kind = "eval" =>
                  /\ \A q \in 1..(p - 1) : trace[q].step < trace[p].step
                  /\ p < Len(trace)
                  /\ trace[p + 1] = [kind |-> "log", step |-> trace[p].step]
        /\ \A n \in 1..Len(invoked) :
              invoked[n].ret # Nil =>
                  \A j \in 1..Len(evals) : evals[j].step <= invoked[n].step

C17_Witness ==
    /\ Passed
    /\ startIndex = 1
    /\ At(ss, 0).SkipFunc = "fn"
    /\ EvalSteps = <<1, 2>>
    /\ InvokedSteps = <<1>>
    /\ pc = "returned"

(* --------------------------------- C18 --------------------------------- *)

\* C18: RunFromCommand never gives Run an index out of range: either
\* GetStep fails and its error is returned, or Run starts at an index in
\* [0, len).  On an empty sequence RunFromCommand returns an error and
\* never faults, while RunAll faults on ss[0].
C18_StartInRange ==
    /\ entry = "RunFromCommand" =>
          /\ \/ (pc = "returned" /\ err.kind = "Wrap"
                   /\ err.format = "could not parse command" /\ events = <<>>)
             \/ InRange(ss, startIndex)
          /\ pc = "panicked" => InRange(ss, startIndex) /\ NilActionCalled
          /\ Len(ss) = 0 => (pc = "returned" /\ err # Nil)
    /\ (entry = "RunAll" /\ Len(ss) = 0) => pc = "panicked"

C18_Witness ==
    /\ entry = "RunFromCommand"
    /\ Len(ss) = 0
    /\ command = <<"0">>
    /\ pc = "returned"
    /\ err # Nil

(* --------------------------------- C19 --------------------------------- *)

RunDone == pc \in {"returned", "panicked"}

\* Where a call of Run stands: each step is considered at most once.
RunProgress ==
    (entry \in RunEntries) =>
        /\ Len(events) <= Len(ss)
        /\ pc = "run" => (Len(events) = i /\ i < Len(ss))
        /\ (pc = "returned" /\ entry = "Run") => err.kind \in {"nil", "Errorf", "Wrap"}
        /\ (pc = "panicked" /\ InRange(ss, startIndex)) => NilActionCalled

\* C19: when the actions and skip predicates called return, Run(start) with
\* start in range terminates, each step considered at most once and the
\* index only going up, in success, the dependent-start error or the error
\* of a step; the one other end is the fault of calling an unset action,
\* which does not return.
C19_Terminates ==
    /\ (pc = "run") ~> RunDone
    /\ [][ /\ (pc = "run" /\ pc' = "run") => i' = i + 1
           /\ (pc = "run") => (i' >= i /\ Len(events') = Len(events) + 1)
           /\ RunProgress' ]_vars

C19_Witness ==
    /\ entry = "Run"
    /\ startIndex = 0
    /\ pc = "returned"
    /\ err = Nil
    /\ Len(events) = 3
    /\ Len(invoked) = 2

====
